---- MODULE Spec2Model ----
(***************************************************************************)
(* ecowitt-data-prometheus-relay: the report handler, the Prometheus       *)
(* default registry it writes to, and the TTL watchdog goroutine           *)
(* (src/main.go).                                                          *)
(*                                                                         *)
(* Strings are TLA+ strings.  Time is counted in thirds of a second.       *)
(* The registry is a sequence of collector instances in registration       *)
(* order; a holder is an index into it, and 0 stands for an instance that  *)
(* was constructed but never registered.                                   *)
(***************************************************************************)
EXTENDS Integers, Sequences, FiniteSets, TLC

\* ---------------------------------------------------------------- bounds
MaxRequests == 2     \* requests the server accepts during a run
MaxFields == 2       \* key=value pairs in one request body
MaxTime == 9         \* the clock stops here

Handlers == {"h1", "h2"}    \* handler goroutines that may run at once

\* ------------------------------------------------------------- constants
TickLen == 3         \* time.Second, the ticker period, in time units
DefaultTtl == -1     \* default of the -ttl flag

Unknown == "unknown"
Namespace == "ecowitt_relay"
BadEscape == "%zz"      \* a pair url.QueryUnescape rejects
BadUtf8 == "\\xff"      \* the byte 0xFF (sent as %FF): not valid UTF-8

ReservedKeys == {"dateutc", "PASSKEY", "model", "stationtype", "freq"}
MeasureKeys == {"tempf", "humidity", BadUtf8}
BodyKeys == ReservedKeys \cup MeasureKeys \cup {BadEscape}
BodyVals == {"1", "2.0", BadUtf8}
SourceIps == {"", "10.0.0.1"}
Ttls == {DefaultTtl, 2, 4}

\* the input alphabet: keys and values of a body, the X-Real-IP header, -ttl.
\* A request that arrives while another one is being handled carries a body
\* over OverlapPairs; SpecTtl sends the bodies of TtlBodies.
OverlapPairs == {<<"tempf", "2.0">>, <<"model", "1">>}
OverlapBodies == UNION {[1..n -> OverlapPairs] : n \in 0..MaxFields}
TtlBodies == {<<>>, <<<<"tempf", "1">>>>}
Bodies == UNION {[1..n -> BodyKeys \X BodyVals] : n \in 0..MaxFields}

VARIABLES
    proc,            \* "running", or how the process ended
    registry,        \* prometheus.DefaultRegisterer: Seq of collectors
    counter,         \* the int64 the handler adds to and the watchdog loads
    req,             \* per handler goroutine: its locals and position
    nreq,            \* requests accepted so far
    ttl,             \* *ttl
    wd,              \* the watchdog goroutine: position and locals
    now,             \* the clock
    lastChangeAt,    \* history: when counter last changed
    maxGap,          \* history: longest time seen without a counter change
    lastWrite,       \* history: identity -> value of the last gauge.Set, and how many
    decoded          \* history: label set -> reports decoded with it

vars == <<proc, registry, counter, req, nreq, ttl, wd, now,
          lastChangeAt, maxGap, lastWrite, decoded>>

\* ------------------------------------------------------ library functions
\* strconv.ParseFloat(s, 64) on the value strings of the model
Numeral == ("1" :> 1) @@ ("2.0" :> 2)
ParseFloat(s) ==
    IF s \in DOMAIN Numeral THEN [err |-> FALSE, val |-> Numeral[s]]
    ELSE [err |-> TRUE, val |-> 0]

\* url.ParseQuery: every pair is decoded, the pairs that decode are
\* collected per key in order, and the first decoding error is returned
PairsFor(body, k) == SelectSeq(body, LAMBDA p : p[1] = k)
ParseQuery(body) ==
    LET keys == {body[i][1] : i \in DOMAIN body} \ {BadEscape}
    IN  [err |-> \E i \in DOMAIN body : body[i][1] = BadEscape,
         values |-> [k \in keys |->
                       [i \in 1..Len(PairsFor(body, k)) |-> PairsFor(body, k)[i][2]]]]

\* url.Values.Get and url.Values.Del
Get(values, k) == IF k \in DOMAIN values THEN values[k][1] ELSE ""
Del(values, k) == [x \in DOMAIN values \ {k} |-> values[x]]

RECURSIVE DelAll(_, _)
DelAll(values, ks) ==
    IF ks = {} THEN values
    ELSE LET k == CHOOSE x \in ks : TRUE
         IN  DelAll(Del(values, k), ks \ {k})

\* prometheus.NewDesc marks a descriptor invalid when its name is not a valid
\* metric name or a constant label value is not valid UTF-8
ValidUtf8(s) == s # BadUtf8
ValidDesc(desc) ==
    /\ \A part \in {desc.fqName[i] : i \in DOMAIN desc.fqName} : ValidUtf8(part)
    /\ ValidUtf8(desc.source_ip)
    /\ ValidUtf8(desc.model)
    /\ ValidUtf8(desc.stationType)

\* the identity a registry compares: fully-qualified name and label values
DescID(desc) == <<desc.fqName, desc.source_ip, desc.model, desc.stationType>>

\* Registry.Register, atomic under the registry's mutex
Register(reg, c) ==
    LET dup == {i \in DOMAIN reg : DescID(reg[i].desc) = DescID(c.desc)}
    IN  IF ~ValidDesc(c.desc)
        THEN [err |-> "invalid", existing |-> 0, reg |-> reg]
        ELSE IF dup # {}
        THEN [err |-> "AlreadyRegistered", existing |-> CHOOSE i \in dup : TRUE,
              reg |-> reg]
        ELSE [err |-> "nil", existing |-> 0, reg |-> Append(reg, c)]

\* a Set or Inc on a holder; an unregistered instance is seen by no one
Apply(reg, holder, v) ==
    IF holder \in DOMAIN reg THEN [reg EXCEPT ![holder].val = v] ELSE reg
ValueOf(reg, holder) == IF holder \in DOMAIN reg THEN reg[holder].val ELSE 0

\* ------------------------------------------------------------ main.go
\* faulty variant of GaugeOpts: the ConstLabels are not taken from the report
GaugeOptsNoLabels(model, station, sourceIp, key) ==
    [fqName |-> <<Namespace, key, "_raw">>,
     source_ip |-> Unknown, model |-> Unknown, stationType |-> Unknown]

\* prometheus.GaugeOpts of updateGauge, as the descriptor it yields
GaugeOpts(model, station, sourceIp, key) ==
    [fqName |-> <<Namespace, key, "_raw">>,
     source_ip |-> sourceIp, model |-> model, stationType |-> station]

\* prometheus.CounterOpts of incrementReportCount
CounterOpts(model, station, sourceIp) ==
    [fqName |-> <<Namespace, "report_count">>,
     source_ip |-> sourceIp, model |-> model, stationType |-> station]

NewGauge(opts) == [kind |-> "gauge", desc |-> opts, val |-> 0]
NewCounter(opts) == [kind |-> "counter", desc |-> opts, val |-> 0]

\* faulty variant of GaugeAfterRegister: on a conflict the new, unregistered
\* gauge is kept
GaugeKeepsNew(res, new) ==
    [fatal |-> res.err = "invalid", holder |-> IF res.err = "nil" THEN new ELSE 0]

\* the holder updateGauge goes on with after Register, and whether it logs Fatal
GaugeAfterRegister(res, new) ==
    IF res.err = "nil" THEN [fatal |-> FALSE, holder |-> new]
    ELSE IF res.err = "AlreadyRegistered" THEN [fatal |-> FALSE, holder |-> res.existing]
    ELSE [fatal |-> TRUE, holder |-> 0]

\* faulty variant of CounterAfterRegister: on a conflict the new, unregistered
\* counter is kept
CounterKeepsNew(res, new) ==
    [fatal |-> res.err = "invalid", holder |-> IF res.err = "nil" THEN new ELSE 0]

\* the same in incrementReportCount
CounterAfterRegister(res, new) ==
    IF res.err = "nil" THEN [fatal |-> FALSE, holder |-> new]
    ELSE IF res.err = "AlreadyRegistered" THEN [fatal |-> FALSE, holder |-> res.existing]
    ELSE [fatal |-> TRUE, holder |-> 0]

OrUnknown(s) == IF s = "" THEN Unknown ELSE s

DropKeys(values) == DelAll(values, ReservedKeys)

\* faulty variant of ParseErr: the error of url.ParseQuery is not looked at
ParseErrIgnored(body) == FALSE

\* err != nil after url.ParseQuery
ParseErr(body) == ParseQuery(body).err

Idle ==
    [pc |-> "idle", status |-> 0, undecodable |-> FALSE, model |-> "", station |-> "",
     sourceIp |-> "", values |-> <<>>, remaining |-> {}, key |-> "", val |-> 0,
     holder |-> 0, touched |-> {}]

\* the handler from its entry to the call of incrementReportCount: all local
Accept(method, readOk, body, xRealIp) ==
    IF method # "POST" THEN [Idle EXCEPT !.pc = "done", !.status = 405]
    ELSE IF ~readOk THEN [Idle EXCEPT !.pc = "done", !.status = 500]
    ELSE IF ParseErr(body)
    THEN [Idle EXCEPT !.pc = "done", !.status = 200]
    ELSE LET parsed == ParseQuery(body).values
             values == DropKeys(parsed)
         IN  [Idle EXCEPT !.pc = "registerCounter", !.status = 200,
                          !.model = OrUnknown(Get(parsed, "model")),
                          !.station = OrUnknown(Get(parsed, "stationtype")),
                          !.sourceIp = OrUnknown(xRealIp),
                          !.values = values, !.remaining = DOMAIN values]

Labels(r) == <<r.sourceIp, r.model, r.station>>
Identity(r, key) == <<key, r.model, r.station, r.sourceIp>>
Bump(f, k) ==
    [x \in DOMAIN f \cup {k} |->
        IF x = k THEN (IF k \in DOMAIN f THEN f[k] ELSE 0) + 1 ELSE f[x]]
Written(f, k, v) ==
    [x \in DOMAIN f \cup {k} |->
        IF x = k THEN [val |-> v, n |-> (IF k \in DOMAIN f THEN f[k].n ELSE 0) + 1]
        ELSE f[x]]

\* a request: its method, whether io.ReadAll succeeds, its body, its X-Real-IP
Inputs(bodies) ==
    {[method |-> "GET", readOk |-> TRUE, body |-> <<>>, xRealIp |-> ""],
     [method |-> "POST", readOk |-> FALSE, body |-> <<>>, xRealIp |-> ""]}
    \cup [method : {"POST"}, readOk : {TRUE}, body : bodies, xRealIp : SourceIps]

InFlight(h) == req[h].pc \notin {"idle", "done"}
Overlaps(h) == \E g \in Handlers \ {h} : InFlight(g)

Receive(h, bodies, overlapBodies) ==
    /\ proc = "running"
    /\ req[h].pc \in {"idle", "done"}
    /\ nreq < MaxRequests
    /\ \E in \in Inputs(IF Overlaps(h) THEN overlapBodies ELSE bodies) :
          LET r == Accept(in.method, in.readOk, in.body, in.xRealIp)
          IN  /\ req' = [req EXCEPT ![h] = [r EXCEPT !.undecodable =
                        in.method = "POST" /\ in.readOk /\ ParseQuery(in.body).err]]
              /\ decoded' = IF r.pc = "registerCounter" THEN Bump(decoded, Labels(r))
                            ELSE decoded
    /\ nreq' = nreq + 1
    /\ UNCHANGED <<proc, registry, counter, ttl, wd, now, lastChangeAt, maxGap, lastWrite>>

\* incrementReportCount up to the end of its if statement
RegisterCounter(h) ==
    /\ proc = "running"
    /\ req[h].pc = "registerCounter"
    /\ LET r == req[h]
           res == Register(registry, NewCounter(CounterOpts(r.model, r.station, r.sourceIp)))
           out == CounterAfterRegister(res, Len(registry) + 1)
       IN  IF out.fatal
           THEN /\ proc' = "fatal"
                /\ req' = [req EXCEPT ![h].pc = "fatalCounter"]
                /\ UNCHANGED registry
           ELSE /\ registry' = res.reg
                /\ req' = [req EXCEPT ![h].pc = "inc", ![h].holder = out.holder]
                /\ UNCHANGED proc
    /\ UNCHANGED <<counter, nreq, ttl, wd, now, lastChangeAt, maxGap, lastWrite, decoded>>

\* counter.Inc()
Inc(h) ==
    /\ proc = "running"
    /\ req[h].pc = "inc"
    /\ registry' = Apply(registry, req[h].holder, ValueOf(registry, req[h].holder) + 1)
    /\ req' = [req EXCEPT ![h].pc = "range", ![h].holder = 0]
    /\ UNCHANGED <<proc, counter, nreq, ttl, wd, now, lastChangeAt, maxGap, lastWrite, decoded>>

\* one iteration of the range loop, up to the end of updateGauge's if statement
Range(h) ==
    /\ proc = "running"
    /\ req[h].pc = "range"
    /\ \E left \in req[h].remaining :
          LET r == req[h]
              f == ParseFloat(r.values[left][1])
              res == Register(registry, NewGauge(GaugeOpts(r.model, r.station, r.sourceIp, left)))
              out == GaugeAfterRegister(res, Len(registry) + 1)
          IN  IF f.err
              THEN /\ req' = [req EXCEPT ![h].remaining = @ \ {left}]
                   /\ UNCHANGED <<proc, registry>>
              ELSE IF out.fatal
              THEN /\ proc' = "fatal"
                   /\ req' = [req EXCEPT ![h].pc = "fatalGauge", ![h].key = left,
                                         ![h].val = f.val, ![h].remaining = @ \ {left}]
                   /\ UNCHANGED registry
              ELSE /\ registry' = res.reg
                   /\ req' = [req EXCEPT ![h].pc = "set", ![h].key = left, ![h].val = f.val,
                                         ![h].holder = out.holder,
                                         ![h].remaining = @ \ {left}]
                   /\ UNCHANGED proc
    /\ UNCHANGED <<counter, nreq, ttl, wd, now, lastChangeAt, maxGap, lastWrite, decoded>>

\* gauge.Set(value)
GaugeSet(h) ==
    /\ proc = "running"
    /\ req[h].pc = "set"
    /\ LET r == req[h]
       IN  /\ registry' = Apply(registry, r.holder, r.val)
           /\ lastWrite' = Written(lastWrite, Identity(r, r.key), r.val)
           /\ req' = [req EXCEPT ![h].pc = "range", ![h].holder = 0,
                                 ![h].touched = @ \cup {Identity(r, r.key)}]
    /\ UNCHANGED <<proc, counter, nreq, ttl, wd, now, lastChangeAt, maxGap, decoded>>

\* the loop is over: atomic.AddInt64(&counter, 1), and the handler returns
Finish(h) ==
    /\ proc = "running"
    /\ req[h].pc = "range"
    /\ req[h].remaining = {}
    /\ counter' = counter + 1       \* at most MaxRequests: int64 never wraps
    /\ req' = [req EXCEPT ![h] = [Idle EXCEPT !.pc = "done", !.status = req[h].status]]
    /\ lastChangeAt' = now
    /\ UNCHANGED <<proc, registry, nreq, ttl, wd, now, maxGap, lastWrite, decoded>>

\* ------------------------------------------------------------ watchdog
WdOff == [pc |-> "off", lastIncrement |-> 0, lastCount |-> 0, tickAt |-> 0]

\* the goroutine's first three statements
WatchdogStart ==
    /\ proc = "running"
    /\ wd.pc = "start"
    /\ wd' = [pc |-> "select", lastIncrement |-> now, lastCount |-> counter,
              tickAt |-> now + TickLen]
    /\ UNCHANGED <<proc, registry, counter, req, nreq, ttl, now, lastChangeAt, maxGap,
                   lastWrite, decoded>>

\* faulty variant of Expired: the counter is not compared with lastCount
ExpiredIgnoringCount(count, lastCount, since) == count > 0 /\ since > ttl

\* the three nested conditions under which the watchdog calls os.Exit(1)
Expired(count, lastCount, since) == count > 0 /\ count = lastCount /\ since > ttl

\* case <-timer.C: the select statement is not in a loop, so the goroutine
\* ends after it
WatchdogTick ==
    /\ proc = "running"
    /\ wd.pc = "select"
    /\ now >= wd.tickAt
    /\ IF Expired(counter, wd.lastCount, now - wd.lastIncrement)
       THEN /\ proc' = "ttl_expired"
            /\ wd' = [wd EXCEPT !.pc = "exited"]
       ELSE /\ wd' = IF counter > 0 /\ counter # wd.lastCount
                     THEN [wd EXCEPT !.pc = "returned", !.lastIncrement = now,
                                     !.lastCount = counter]
                     ELSE [wd EXCEPT !.pc = "returned"]
            /\ UNCHANGED proc
    /\ UNCHANGED <<registry, counter, req, nreq, ttl, now, lastChangeAt, maxGap,
                   lastWrite, decoded>>

\* http.ListenAndServe fails: mainInner returns, the deferred cancel() runs
\* and main exits with status 1; the watchdog may see ctx.Done() first
ListenFails ==
    /\ proc = "running"
    /\ nreq = 0
    /\ proc' = "listen_error"
    /\ wd' = IF wd.pc = "select" THEN [wd EXCEPT !.pc = "closed"] ELSE wd
    /\ UNCHANGED <<registry, counter, req, nreq, ttl, now, lastChangeAt, maxGap,
                   lastWrite, decoded>>

\* time passes; the goroutine is started, and a due tick taken, before the
\* clock moves on
Advance ==
    /\ proc = "running"
    /\ ttl > 0
    /\ now < MaxTime
    /\ wd.pc # "start"
    /\ ~(wd.pc = "select" /\ now >= wd.tickAt)
    /\ now' = now + 1
    /\ maxGap' = IF now' - lastChangeAt > maxGap THEN now' - lastChangeAt ELSE maxGap
    /\ UNCHANGED <<proc, registry, counter, req, nreq, ttl, wd, lastChangeAt,
                   lastWrite, decoded>>

\* ---------------------------------------------------------- specification
InitWith(ttls) ==
    /\ proc = "running"
    /\ registry = <<>>
    /\ counter = 0
    /\ req = [h \in Handlers |-> Idle]
    /\ nreq = 0
    /\ ttl \in ttls
    /\ wd = IF ttl > 0 THEN [WdOff EXCEPT !.pc = "start"] ELSE WdOff
    /\ now = 0
    /\ lastChangeAt = 0
    /\ maxGap = 0
    /\ lastWrite = <<>>
    /\ decoded = <<>>

Init == InitWith({DefaultTtl})

Next ==
    \/ \E h \in Handlers : Receive(h, Bodies, OverlapBodies)
    \/ \E h \in Handlers : RegisterCounter(h)
    \/ \E h \in Handlers : Inc(h)
    \/ \E h \in Handlers : Range(h)
    \/ \E h \in Handlers : GaugeSet(h)
    \/ \E h \in Handlers : Finish(h)
    \/ ListenFails

Spec == Init /\ [][Next]_vars

\* the same program started with a positive -ttl
InitTtl == InitWith(Ttls \ {DefaultTtl})

NextTtl ==
    \/ \E h \in Handlers : Receive(h, TtlBodies, TtlBodies)
    \/ \E h \in Handlers : RegisterCounter(h)
    \/ \E h \in Handlers : Inc(h)
    \/ \E h \in Handlers : Range(h)
    \/ \E h \in Handlers : GaugeSet(h)
    \/ \E h \in Handlers : Finish(h)
    \/ WatchdogStart
    \/ WatchdogTick
    \/ ListenFails
    \/ Advance

SpecTtl == InitTtl /\ [][NextTtl]_vars
\* ------------------------------------------------------------- properties
Processing(h) == req[h].pc \in {"registerCounter", "inc", "range", "set"}
LoopOver(h) == req[h].pc = "range" /\ req[h].remaining = {}
\* the handling of h's request is over: the loop has run out, or updateGauge
\* has ended the process
Ended(h) == LoopOver(h) \/ req[h].pc = "fatalGauge"
Quiet == \A h \in Handlers : ~InFlight(h)

Numeric(r) == {k \in DOMAIN r.values : ~ParseFloat(r.values[k][1]).err}
Series(id) ==
    {i \in DOMAIN registry :
        /\ registry[i].kind = "gauge"
        /\ registry[i].desc.fqName = <<Namespace, id[1], "_raw">>
        /\ registry[i].desc.model = id[2]
        /\ registry[i].desc.stationType = id[3]
        /\ registry[i].desc.source_ip = id[4]}
CountSeries(labels) ==
    {i \in DOMAIN registry :
        /\ registry[i].kind = "counter"
        /\ registry[i].desc.fqName = <<Namespace, "report_count">>
        /\ registry[i].desc.source_ip = labels[1]
        /\ registry[i].desc.model = labels[2]
        /\ registry[i].desc.stationType = labels[3]}
Gauges == {i \in DOMAIN registry : registry[i].kind = "gauge"}
Counters == {i \in DOMAIN registry : registry[i].kind = "counter"}

RECURSIVE SumVal(_)
SumVal(is) ==
    IF is = {} THEN 0
    ELSE LET i == CHOOSE x \in is : TRUE IN registry[i].val + SumVal(is \ {i})

RECURSIVE SumOf(_, _)
SumOf(f, ks) ==
    IF ks = {} THEN 0
    ELSE LET k == CHOOSE x \in ks : TRUE IN f[k] + SumOf(f, ks \ {k})

\* C1: with a positive TTL, once the report counter has stayed unchanged for
\* longer than the TTL, the watchdog exits the process within a tick.  Stated
\* in the form most favourable to the code: for a counter that is already
\* positive (the watchdog ignores a counter that is still 0), and with a second
\* tick allowed for the watchdog to have seen the last change.
C1_ExitsWithinATickOfTtl ==
    (ttl > 0 /\ counter > 0 /\ now - lastChangeAt > ttl + 2 * TickLen)
        => proc # "running"

\* C2: with a positive TTL, as long as no stretch without a completed report
\* has reached the TTL, the watchdog has not exited the process.
C2_NoExitWhileReportsArrive ==
    (ttl > 0 /\ maxGap < ttl) => proc # "ttl_expired"

\* C2 witness: reports kept arriving, the watchdog took its tick, saw the
\* counter increased and reset its last-activity timestamp.
C2_Witness ==
    /\ ttl > 0 /\ maxGap < ttl
    /\ wd.pc = "returned" /\ wd.lastCount > 0 /\ wd.lastIncrement = wd.tickAt
    /\ proc = "running"

\* C3: when the handling of a decoded report is over, the gauges it created or
\* updated are exactly those of its fields whose first value parses as a
\* number, each registered under ecowitt_relay_<field>_raw with the report's
\* model, station type and source IP, and none is named after a reserved key.
C3_ExactlyTheNumericFields ==
    \A h \in Handlers :
        Ended(h) =>
            /\ req[h].touched = {Identity(req[h], k) : k \in Numeric(req[h])}
            /\ \A id \in req[h].touched : Series(id) # {} /\ id[1] \notin ReservedKeys

\* C4: the registry never holds two gauges of one identity, the gauge of an
\* identity holds the value of the last update applied to it, and once no
\* request is in flight the gauges are exactly those of the identities updated.
C4_OneGaugePerIdentityLastWriteWins ==
    /\ \A i, j \in Gauges : DescID(registry[i].desc) = DescID(registry[j].desc) => i = j
    /\ \A id \in DOMAIN lastWrite :
          /\ Cardinality(Series(id)) = 1
          /\ \A i \in Series(id) : registry[i].val = lastWrite[id].val
    /\ Quiet => Gauges = UNION {Series(id) : id \in DOMAIN lastWrite}

\* C4 witness: one identity was updated twice and its single gauge holds the
\* second value.
C4_Witness ==
    \E id \in DOMAIN lastWrite :
        /\ lastWrite[id].n = 2
        /\ Cardinality(Series(id)) = 1
        /\ \A i \in Series(id) : registry[i].val = lastWrite[id].val
        /\ Cardinality(Gauges) = 1

\* C5: concurrent handlers never leave two collectors of one identity
\* registered, a handler about to Inc or Set holds the registered collector of
\* its identity, no handler is stopped by a conflict (only by a descriptor the
\* registry rejects), and once no request is in flight every report counter
\* equals the number of reports decoded for its label set.
C5_RegistrationIsInsertIfAbsent ==
    /\ \A i, j \in DOMAIN registry :
          DescID(registry[i].desc) = DescID(registry[j].desc) => i = j
    /\ \A h \in Handlers :
          /\ req[h].pc = "inc" => req[h].holder \in CountSeries(Labels(req[h]))
          /\ req[h].pc = "set" => req[h].holder \in Series(Identity(req[h], req[h].key))
          /\ req[h].pc = "fatalCounter" =>
                BadUtf8 \in {req[h].model, req[h].station, req[h].sourceIp}
          /\ req[h].pc = "fatalGauge" => req[h].key = BadUtf8
    /\ Quiet =>
          \A l \in DOMAIN decoded :
              /\ Cardinality(CountSeries(l)) = 1
              /\ \A i \in CountSeries(l) : registry[i].val = decoded[l]

\* C5 witness: two handlers raced on one identity, both are past Register
\* holding the same report counter, and neither has incremented it yet.
C5_Witness ==
    \E h, g \in Handlers :
        /\ h # g
        /\ req[h].pc = "inc" /\ req[g].pc = "inc"
        /\ req[h].holder = req[g].holder
        /\ registry[req[h].holder].val = 0

\* C6: no handler ends the process while it processes a field of its report.
C6_FieldErrorsAreNotFatal ==
    \A h \in Handlers : req[h].pc # "fatalGauge"

\* C7: a handler whose request body did not decode has answered 200 and is
\* done, and no step it takes changes the registry or the report counter.
C7_UndecodableBodyChangesNothing ==
    /\ [](\A h \in Handlers :
            req[h].undecodable =>
                req[h].pc = "done" /\ req[h].status = 200 /\ req[h].touched = {})
    /\ [][\A h \in Handlers :
            (req'[h] # req[h] /\ req'[h].undecodable) =>
                (registry' = registry /\ counter' = counter /\ decoded' = decoded
                 /\ lastWrite' = lastWrite)]_vars

\* C7 witness: an undecodable body was answered while the registry held series.
C7_Witness ==
    \E h \in Handlers :
        req[h].undecodable /\ req[h].status = 200 /\ Len(registry) > 0

\* C8: when the handling of a decoded report with an unparseable field is
\* over, none of its unparseable fields has a gauge from it and every field
\* whose value parses has been created or updated by it.
C8_OtherFieldsStillUpdated ==
    \A h \in Handlers :
        (Ended(h) /\ Numeric(req[h]) # DOMAIN req[h].values) =>
            \A k \in DOMAIN req[h].values :
                (k \in Numeric(req[h])) <=> (Identity(req[h], k) \in req[h].touched)

\* C9: every identity updated has a series with exactly its field name, model,
\* station type and source IP, so identities that differ in a label have
\* different series; and a step changes the value of no series but the one of
\* the identity the acting handler updates.
C9_SeriesAreIndependent ==
    /\ [](\A id \in DOMAIN lastWrite : Series(id) # {})
    /\ [][\A i \in DOMAIN registry :
            /\ i \in DOMAIN registry'
            /\ registry'[i].desc = registry[i].desc
            /\ registry'[i].val # registry[i].val =>
                  \E h \in Handlers :
                      \/ /\ req[h].pc = "set" /\ req'[h].pc = "range"
                         /\ i \in Series(Identity(req[h], req[h].key))
                      \/ /\ req[h].pc = "inc" /\ req'[h].pc = "range"
                         /\ i \in CountSeries(Labels(req[h]))]_vars

\* C9 witness: two identities with the same field name and different labels
\* hold different values in two series.
C9_Witness ==
    \E a, b \in DOMAIN lastWrite :
        /\ a[1] = b[1] /\ a # b
        /\ lastWrite[a].val # lastWrite[b].val
        /\ \E i \in Series(a), j \in Series(b) :
              i # j /\ registry[i].val = lastWrite[a].val
                    /\ registry[j].val = lastWrite[b].val

\* C10: every decoded report whose label set registers has been counted once
\* in its report_count series unless it is still before its Inc, and once in
\* the watchdog's counter unless it is still being handled; so the watchdog's
\* counter never exceeds the sum of the report_count series and equals it when
\* no request is in flight.
C10_CountedOncePerReport ==
    LET total == SumOf(decoded, DOMAIN decoded)
        early == {h \in Handlers : req[h].pc \in {"registerCounter", "inc", "fatalCounter"}}
        busy == {h \in Handlers : Processing(h) \/ req[h].pc = "fatalCounter"}
    IN  /\ SumVal(Counters) = total - Cardinality(early)
        /\ counter = total - Cardinality(busy)
        /\ counter <= SumVal(Counters)
        /\ Quiet => counter = SumVal(Counters)
\* What C3, C8 and C10 state holds in every state in which no handler has
\* reached the Fatal call of updateGauge.
NoFieldWasFatal == \A h \in Handlers : req[h].pc # "fatalGauge"
Aux_HoldsUnlessFieldIsFatal ==
    NoFieldWasFatal =>
        /\ C3_ExactlyTheNumericFields
        /\ C8_OtherFieldsStillUpdated
        /\ C10_CountedOncePerReport
====
